---- MODULE Spec2Model ----
(***************************************************************************)
(* Laundry tracker (src/app.py): one machine's Firestore document and the  *)
(* Streamlit script runs of several browser clients against it.            *)
(*                                                                         *)
(* A script run first reads the document (doc_ref.get, line 123), derives  *)
(* its flags from the clock, and then executes at most one button handler  *)
(* on the values it read; the handler writes with doc_ref.update or        *)
(* doc_ref.set. The read and the write are two separate store round trips, *)
(* and a handler reads the clock while it builds the write, before the     *)
(* write is applied, so other clients' runs and the clock interleave       *)
(* between all of them. Times are seconds since an arbitrary origin.       *)
(***************************************************************************)
EXTENDS Integers, Sequences, FiniteSets, TLC

VARIABLES now, store, pc, view, last, alerts

vars == <<now, store, pc, view, last, alerts>>

-----------------------------------------------------------------------------
(* Bounds of the model *)

(* Join is not taken once the stored queue holds MaxQueue waiters *)
MaxQueue == 2
(* the clock advances ClockStep seconds at a time (14 min 45 s, so that    *)
(* instants inside the last minute of a 15-minute window are visited)      *)
ClockStep == 885
(* the clock stops at MaxTime *)
MaxTime == 1800
(* seconds the clock may gain between the two clock reads of a Start *)
MaxDrift == 1
(* Add Time is not taken when it would move end_time past MaxEndTime *)
MaxEndTime == 1200

Clients == {1, 2}

(* Program constants *)

BUFFER_MINUTES == 15
SecondsPerMinute == 60
MinDuration == 15
AddMinsMin == 5
MASTER_PIN == "0000"

-----------------------------------------------------------------------------
(* Strings the forms receive. A name is a sequence of characters so that   *)
(* strip() and lower() are computed, not assumed.                          *)

NameB == <<"B">>
NameBob == <<"b", " ">>
NameC == <<"C">>
NameEmpty == <<>>

LowerChar(ch) ==
    CASE ch = "B" -> "b"
      [] ch = "C" -> "c"
      [] OTHER -> ch

lower(s) == [k \in 1..Len(s) |-> LowerChar(s[k])]

RECURSIVE lstrip(_)
lstrip(s) == IF s # <<>> /\ Head(s) = " " THEN lstrip(Tail(s)) ELSE s

RECURSIVE rstrip(_)
rstrip(s) ==
    IF s # <<>> /\ s[Len(s)] = " " THEN rstrip(SubSeq(s, 1, Len(s) - 1)) ELSE s

strip(s) == rstrip(lstrip(s))

(* line 300: name.strip().lower() != queue[0]['name'].strip().lower() *)
SameNameExact(name, head) == name = head
SameName(name, head) == lower(strip(name)) = lower(strip(head))

(* Python truthiness of the text inputs (line 334) *)
NameGiven(s) == s # <<>>
PinGiven(p) == p # ""

Designations == {"PhD"}
Comments == {""}
Durations == {MinDuration}
AddMins == {AddMinsMin}
Drifts == {0}

(* What users type into the Start forms (lines 294-298, 312-316) *)
StartForms ==
    { [name |-> NameB, pin |-> "1234"] }

(* What users type into the Join popover (lines 326-331) *)
JoinForms ==
    { [name |-> NameB, pin |-> "1234", urgent |-> FALSE, urgent_reason |-> ""],
      [name |-> NameC, pin |-> "12", urgent |-> TRUE, urgent_reason |-> "exam"],
      [name |-> NameEmpty, pin |-> "1234", urgent |-> FALSE, urgent_reason |-> ""],
      [name |-> NameC, pin |-> "", urgent |-> FALSE, urgent_reason |-> ""] }

(* What users type into the PIN boxes (lines 195, 258) *)
AuthPins == {"1234", "9999", MASTER_PIN}

-----------------------------------------------------------------------------
(* The document. An absent field is the empty sequence, a present one a    *)
(* one-element sequence; an absent queue reads as [] (line 127).           *)

Absent == <<>>
Some(x) == <<x>>

EmptyDoc == [current_user |-> Absent, queue |-> <<>>, last_free_time |-> Absent]

(* lines 305, 319: the dict written as current_user *)
Session(form, desig, comment, start, end) ==
    [name |-> form.name, designation |-> desig, comment |-> comment,
     pin |-> form.pin, start_time |-> start, end_time |-> end,
     timeout_alert_sent |-> FALSE]

(* line 335: the dict appended to the queue *)
Waiter(form, desig, comment) ==
    [name |-> form.name, designation |-> desig, comment |-> comment,
     pin |-> form.pin, urgent |-> form.urgent, urgent_reason |-> form.urgent_reason]

Minutes(m) == m * SecondsPerMinute

(* int(x / 60): Python's int() truncates toward zero *)
IntDiv(a, b) == IF a >= 0 THEN a \div b ELSE -((-a) \div b)

(* lines 135-141 *)
IsRunning(cu, t) == cu # Absent /\ t < cu[1].end_time

(* lines 226-230 *)
EffectiveFreeTime(cu, lft) ==
    IF lft # Absent THEN lft
    ELSE IF cu # Absent THEN Some(cu[1].end_time)
    ELSE Absent

(* line 235 *)
MinsLeft(free, t) == IntDiv(free + Minutes(BUFFER_MINUTES) - t, SecondsPerMinute)

(* lines 180, 223-241: BUSY, or AVAILABLE with the claim-window banner *)
Status(cu, queue, lft, t) ==
    LET eff == EffectiveFreeTime(cu, lft)
    IN  IF IsRunning(cu, t) THEN "Busy"
        ELSE IF queue = <<>> \/ eff = Absent THEN "Available"
        ELSE IF MinsLeft(eff[1], t) > 0 THEN "ClaimWindowOpen"
        ELSE "ClaimExpired"

(* lines 232-241: timeout_happened *)
TimeoutHappened(cu, queue, lft, t) == Status(cu, queue, lft, t) = "ClaimExpired"

(* lines 123-128: the locals of a run after doc_ref.get(); the flags are   *)
(* not derived yet, no message is built                                    *)
Fetched(doc) ==
    [current_user |-> doc.current_user,
     queue |-> doc.queue,
     last_free_time |-> doc.last_free_time,
     is_running |-> FALSE,
     timeout_happened |-> FALSE,
     msg |-> <<>>]

(* lines 135-141, 226-241: the values one script run works on, derived     *)
(* from the fetched fields with the clock at t; last_free_time_str is not  *)
(* read after line 228                                                     *)
Snapshot(doc, t) ==
    [current_user |-> doc.current_user,
     queue |-> doc.queue,
     last_free_time |-> Absent,
     is_running |-> IsRunning(doc.current_user, t),
     timeout_happened |->
         TimeoutHappened(doc.current_user, doc.queue, doc.last_free_time, t),
     msg |-> <<>>]

NoView ==
    [current_user |-> Absent, queue |-> <<>>, last_free_time |-> Absent,
     is_running |-> FALSE, timeout_happened |-> FALSE, msg |-> <<>>]

(* lines 143-147: the run takes the auto-expiry branch *)
NeedsAlert(v) ==
    /\ v.current_user # Absent
    /\ ~v.is_running
    /\ ~v.current_user[1].timeout_alert_sent

(* lines 200, 211, 263, 269 *)
PinOkOwnOnly(pin, stored) == pin = stored
PinOk(pin, stored) == pin = stored \/ pin = MASTER_PIN

(* line 264 *)
SwapDownHead(q, i) == [q EXCEPT ![1] = q[i + 1], ![i + 1] = q[1]]
SwapDown(q, i) == [q EXCEPT ![i] = q[i + 1], ![i + 1] = q[i]]

(* lines 270, 287, 303: list.pop(i), 1-based here *)
Pop(q, i) == SubSeq(q, 1, i - 1) \o SubSeq(q, i + 1, Len(q))

Contains(q, x) == \E k \in 1..Len(q) : q[k] = x

(* line 336: firestore.ArrayUnion adds the element unless the stored array *)
(* already holds an equal one                                              *)
ArrayUnion(q, x) == IF Contains(q, x) THEN q ELSE Append(q, x)

HeadName(q) == IF q # <<>> THEN Some(q[1].name) ELSE Absent

-----------------------------------------------------------------------------
(* What the step just taken did: whose run, which button, what the page   *)
(* showed (st.error text, "rerun" for st.rerun(), "written" for a write    *)
(* whose message is still to be posted, "nothing" when no branch ran), the *)
(* Telegram message sent, and the PIN typed ("-" when the handler takes    *)
(* none).                                                                  *)
Event(c, op, res, msg, pin) ==
    [c |-> c, op |-> op, res |-> res, msg |-> msg, pin |-> pin]

Init ==
    /\ now = 0
    /\ store = EmptyDoc
    /\ pc = [c \in Clients |-> "idle"]
    /\ view = [c \in Clients |-> NoView]
    /\ last = Event(1, "Init", "", <<>>, "-")
    /\ alerts = 0

(* st.rerun() or the end of the script: the run's locals are gone *)
EndRun(c, op, res, msg, pin) ==
    /\ pc' = [pc EXCEPT ![c] = "idle"]
    /\ view' = [view EXCEPT ![c] = NoView]
    /\ last' = Event(c, op, res, msg, pin)

(* The write of a handler has been applied; the run goes on to             *)
(* send_telegram with the message msg built from its locals, the only one  *)
(* of them it still uses.                                                  *)
Written(c, op, msg) ==
    /\ pc' = [pc EXCEPT ![c] = "posting"]
    /\ view' = [view EXCEPT ![c] = [NoView EXCEPT !.msg = msg]]
    /\ last' = Event(c, op, "written", <<>>, "-")

(* lines 33-44 and the st.rerun() after the call: requests.post delivers   *)
(* the message of the run; the run has waited on the network since its     *)
(* write, other runs and the clock have gone on meanwhile                  *)
Post(c) ==
    /\ pc[c] = "posting"
    /\ EndRun(c, "Post", "rerun", view[c].msg, "-")
    /\ UNCHANGED <<now, store, alerts>>

(* The wall clock moves on, also while script runs are in progress *)
Tick ==
    /\ now + ClockStep <= MaxTime
    /\ now' = now + ClockStep
    /\ last' = Event(1, "Tick", "", <<>>, "-")
    /\ UNCHANGED <<store, pc, view, alerts>>

(* lines 122-128: doc_ref.get() returns the document; the run waits for   *)
(* the answer, the clock is read later                                     *)
Read(c) ==
    /\ pc[c] = "idle"
    /\ pc' = [pc EXCEPT ![c] = "fetched"]
    /\ view' = [view EXCEPT ![c] = Fetched(store)]
    /\ last' = Event(c, "Read", "", <<>>, "-")
    /\ UNCHANGED <<now, store, alerts>>

(* lines 135-141, 226-241: get_current_time() and the flags derived from   *)
(* the fetched fields                                                      *)
Derive(c) ==
    /\ pc[c] = "fetched"
    /\ pc' = [pc EXCEPT ![c] = "loaded"]
    /\ view' = [view EXCEPT ![c] = Snapshot(view[c], now)]
    /\ last' = Event(c, "Derive", "", <<>>, "-")
    /\ UNCHANGED <<now, store, alerts>>

(* lines 143-154: the run read an expired occupant not yet marked and     *)
(* sends the TIME IS UP message; the write follows in a later step, other  *)
(* runs execute in between                                                 *)
ExpiryAlert(c) ==
    /\ pc[c] = "loaded"
    /\ NeedsAlert(view[c])
    /\ pc' = [pc EXCEPT ![c] = "alerted"]
    /\ alerts' = alerts + 1
    /\ last' = Event(c, "ExpiryAlert", "sent",
                     <<"TimeUp", view[c].current_user[1].name,
                       HeadName(view[c].queue)>>, "-")
    /\ UNCHANGED <<now, store, view>>

(* lines 156-159: mark the occupant read as alerted, write it, st.rerun() *)
ExpiryMark(c) ==
    /\ pc[c] = "alerted"
    /\ LET cu == view[c].current_user[1]
       IN  /\ store' = [store EXCEPT !.current_user =
                           Some([cu EXCEPT !.timeout_alert_sent = TRUE])]
           /\ EndRun(c, "Expiry", "rerun", <<>>, "-")
    /\ UNCHANGED <<now, alerts>>

(* a run in which no button was pressed *)
Render(c) ==
    /\ pc[c] = "loaded"
    /\ ~NeedsAlert(view[c])
    /\ EndRun(c, "Render", "shown", <<>>, "-")
    /\ UNCHANGED <<now, store, alerts>>

(* lines 199-208: Add Time *)
Extend(c, pin, add) ==
    /\ pc[c] = "loaded"
    /\ ~NeedsAlert(view[c])
    /\ view[c].is_running
    /\ view[c].current_user[1].end_time + Minutes(add) <= MaxEndTime
    /\ LET cu == view[c].current_user[1]
       IN  IF PinOk(pin, cu.pin)
           THEN /\ store' = [store EXCEPT !.current_user =
                                Some([cu EXCEPT !.end_time = cu.end_time + Minutes(add),
                                                !.timeout_alert_sent = FALSE])]
                /\ alerts' = 0
                /\ EndRun(c, "Extend", "rerun", <<>>, pin)
           ELSE /\ EndRun(c, "Extend", "Wrong PIN", <<>>, pin)
                /\ UNCHANGED <<store, alerts>>
    /\ UNCHANGED now

(* lines 210-214: Finish Early pressed. With an accepted PIN the run      *)
(* builds the update, reading the clock for last_free_time (line 214); the *)
(* write reaches the document in a later step.                             *)
Finish(c, pin) ==
    /\ pc[c] = "loaded"
    /\ ~NeedsAlert(view[c])
    /\ view[c].is_running
    /\ IF PinOk(pin, view[c].current_user[1].pin)
       THEN /\ pc' = [pc EXCEPT ![c] = "finishing"]
            /\ view' = [view EXCEPT ![c].last_free_time = Some(now)]
            /\ last' = Event(c, "Finish", "accepted", <<>>, pin)
       ELSE EndRun(c, "Finish", "Wrong PIN", <<>>, pin)
    /\ UNCHANGED <<now, store, alerts>>

(* lines 212-218: the update of Finish Early is applied (current_user      *)
(* deleted, last_free_time as built) and the message is built from the     *)
(* run's values; it is posted in a later step                              *)
FinishWrite(c) ==
    /\ pc[c] = "finishing"
    /\ store' = [store EXCEPT !.current_user = Absent,
                              !.last_free_time = view[c].last_free_time]
    /\ Written(c, "FinishWrite",
               <<"Finished", view[c].current_user[1].name, HeadName(view[c].queue)>>)
    /\ UNCHANGED <<now, alerts>>

(* lines 261-266: Swap Down on the waiter at index i (1-based) *)
Swap(c, i, pin) ==
    /\ pc[c] = "loaded"
    /\ ~NeedsAlert(view[c])
    /\ i \in 1..(Len(view[c].queue) - 1)
    /\ IF PinOk(pin, view[c].queue[i].pin)
       THEN /\ store' = [store EXCEPT !.queue = SwapDown(view[c].queue, i)]
            /\ EndRun(c, "Swap", "rerun", <<>>, pin)
       ELSE /\ EndRun(c, "Swap", "nothing", <<>>, pin)
            /\ UNCHANGED store
    /\ UNCHANGED <<now, alerts>>

(* lines 268-272: Leave for the waiter at index i (1-based) *)
Leave(c, i, pin) ==
    /\ pc[c] = "loaded"
    /\ ~NeedsAlert(view[c])
    /\ i \in 1..Len(view[c].queue)
    /\ IF PinOk(pin, view[c].queue[i].pin)
       THEN /\ store' = [store EXCEPT !.queue = Pop(view[c].queue, i)]
            /\ EndRun(c, "Leave", "rerun", <<>>, pin)
       ELSE /\ EndRun(c, "Leave", "nothing", <<>>, pin)
            /\ UNCHANGED store
    /\ UNCHANGED <<now, alerts>>

(* lines 284-288: Skip pressed, offered when the claim window read as      *)
(* timed out and more than one waiter queues. The run reads the clock for  *)
(* last_free_time (line 288); the write reaches the document in a later    *)
(* step.                                                                   *)
Skip(c) ==
    /\ pc[c] = "loaded"
    /\ ~NeedsAlert(view[c])
    /\ ~view[c].is_running
    /\ view[c].queue # <<>>
    /\ view[c].timeout_happened
    /\ Len(view[c].queue) > 1
    /\ pc' = [pc EXCEPT ![c] = "skipping"]
    /\ view' = [view EXCEPT ![c].last_free_time = Some(now)]
    /\ last' = Event(c, "Skip", "accepted", <<>>, "-")
    /\ UNCHANGED <<now, store, alerts>>

(* lines 287-289: the update of Skip is applied: the run's list after      *)
(* queue.pop(0) (a change of the run's own list, seen by nobody before the *)
(* write) and last_free_time as built. The message is built from the list  *)
(* after the pop and posted in a later step; with one waiter left queue[1] *)
(* raises IndexError and the run ends without a message.                   *)
SkipWrite(c) ==
    /\ pc[c] = "skipping"
    /\ LET q == Pop(view[c].queue, 1)
       IN  /\ store' = [store EXCEPT !.queue = q,
                                     !.last_free_time = view[c].last_free_time]
           /\ IF Len(q) >= 2
              THEN Written(c, "SkipWrite",
                           <<"QueueAlert", q[1].name, Some(q[2].name)>>)
              ELSE EndRun(c, "SkipWrite", "IndexError", <<>>, "-")
    /\ UNCHANGED <<now, alerts>>

(* lines 292-305: Start from the queue submitted. On a name match the run  *)
(* builds the session; the clock is read twice, for end_val (line 304)     *)
(* and, drift seconds later, for start_time (line 305). The write reaches  *)
(* the document in a later step.                                           *)
StartQueue(c, form, dur, drift) ==
    /\ pc[c] = "loaded"
    /\ ~NeedsAlert(view[c])
    /\ ~view[c].is_running
    /\ view[c].queue # <<>>
    /\ IF ~SameName(form.name, view[c].queue[1].name)
       THEN /\ EndRun(c, "StartQueue", "Only head can start", <<>>, "-")
            /\ UNCHANGED now
       ELSE /\ pc' = [pc EXCEPT ![c] = "claiming"]
            /\ view' = [view EXCEPT
                           ![c].current_user =
                               Some(Session(form, "PhD", "", now + drift, now + Minutes(dur)))]
            /\ now' = now + drift
            /\ last' = Event(c, "StartQueue", "accepted", <<>>, "-")
    /\ UNCHANGED <<store, alerts>>

(* lines 303-307: doc_ref.set replaces the document by the built session   *)
(* and the run's list after queue.pop(0) (a change of the run's own list,  *)
(* seen by nobody before the write); the message is posted in a later step *)
StartQueueWrite(c) ==
    /\ pc[c] = "claiming"
    /\ store' = [current_user |-> view[c].current_user,
                 queue |-> Pop(view[c].queue, 1),
                 last_free_time |-> Absent]
    /\ alerts' = 0
    /\ Written(c, "StartQueueWrite",
               <<"Started", view[c].current_user[1].name, Absent>>)
    /\ UNCHANGED now

(* lines 309-319: Start Machine submitted, offered when the queue read is  *)
(* empty; the session is built as above                                    *)
StartFree(c, form, dur, drift) ==
    /\ pc[c] = "loaded"
    /\ ~NeedsAlert(view[c])
    /\ ~view[c].is_running
    /\ view[c].queue = <<>>
    /\ pc' = [pc EXCEPT ![c] = "starting"]
    /\ view' = [view EXCEPT
                   ![c].current_user =
                       Some(Session(form, "PhD", "", now + drift, now + Minutes(dur)))]
    /\ now' = now + drift
    /\ last' = Event(c, "StartFree", "accepted", <<>>, "-")
    /\ UNCHANGED <<store, alerts>>

(* lines 320-321: doc_ref.set replaces the document by the built session   *)
(* and the (empty) queue read; the message is posted in a later step       *)
StartFreeWrite(c) ==
    /\ pc[c] = "starting"
    /\ store' = [current_user |-> view[c].current_user,
                 queue |-> view[c].queue,
                 last_free_time |-> Absent]
    /\ alerts' = 0
    /\ Written(c, "StartFreeWrite",
               <<"Started", view[c].current_user[1].name, Absent>>)
    /\ UNCHANGED now

(* lines 324-339: Join Queue, offered while running or while a queue       *)
(* exists: the ArrayUnion update is applied and the message built; it is   *)
(* posted in a later step                                                  *)
JoinUngated(c, form, cap) ==
    /\ pc[c] = "loaded"
    /\ ~NeedsAlert(view[c])
    /\ Len(store.queue) < cap
    /\ IF NameGiven(form.name) /\ PinGiven(form.pin)
       THEN /\ store' = [store EXCEPT !.queue =
                            ArrayUnion(store.queue, Waiter(form, "PhD", ""))]
            /\ Written(c, "Join", <<"QueueUpdate", form.name, Absent>>)
       ELSE /\ EndRun(c, "Join", "nothing", <<>>, "-")
            /\ UNCHANGED store
    /\ UNCHANGED <<now, alerts>>

JoinCapped(c, form, cap) ==
    /\ pc[c] = "loaded"
    /\ ~NeedsAlert(view[c])
    /\ view[c].is_running \/ view[c].queue # <<>>
    /\ Len(store.queue) < cap
    /\ IF NameGiven(form.name) /\ PinGiven(form.pin)
       THEN /\ store' = [store EXCEPT !.queue =
                            ArrayUnion(store.queue, Waiter(form, "PhD", ""))]
            /\ Written(c, "Join", <<"QueueUpdate", form.name, Absent>>)
       ELSE /\ EndRun(c, "Join", "nothing", <<>>, "-")
            /\ UNCHANGED store
    /\ UNCHANGED <<now, alerts>>

Join(c, form) == JoinCapped(c, form, MaxQueue)

Next ==
    \/ Tick
    \/ \E c \in Clients : Read(c)
    \/ \E c \in Clients : Derive(c)
    \/ \E c \in Clients : ExpiryAlert(c)
    \/ \E c \in Clients : ExpiryMark(c)
    \/ \E c \in Clients : Render(c)
    \/ \E c \in Clients : Post(c)
    \/ \E c \in Clients, pin \in AuthPins, add \in AddMins : Extend(c, pin, add)
    \/ \E c \in Clients, pin \in AuthPins : Finish(c, pin)
    \/ \E c \in Clients : FinishWrite(c)
    \/ \E c \in Clients, i \in 1..MaxQueue, pin \in AuthPins : Swap(c, i, pin)
    \/ \E c \in Clients, i \in 1..MaxQueue, pin \in AuthPins : Leave(c, i, pin)
    \/ \E c \in Clients : Skip(c)
    \/ \E c \in Clients : SkipWrite(c)
    \/ \E c \in Clients, form \in StartForms, dur \in Durations, drift \in Drifts :
          StartQueue(c, form, dur, drift)
    \/ \E c \in Clients : StartQueueWrite(c)
    \/ \E c \in Clients, form \in StartForms, dur \in Durations, drift \in Drifts :
          StartFree(c, form, dur, drift)
    \/ \E c \in Clients : StartFreeWrite(c)
    \/ \E c \in Clients, form \in JoinForms : Join(c, form)

Spec == Init /\ [][Next]_vars

-----------------------------------------------------------------------------
(* Properties *)

TypeOK ==
    /\ now \in 0..MaxTime
    /\ pc \in [Clients -> {"idle", "fetched", "loaded", "alerted", "finishing", "skipping", "claiming", "starting", "posting"}]
    /\ Len(store.queue) <= MaxQueue
    /\ alerts \in 0..Cardinality(Clients)

Occupant == store.current_user[1]

(* the step just taken is the run of client c ending in handler op *)
Ran(c, op) == pc[c] # "idle" /\ last'.c = c /\ last'.op = op

(* C2: Extend, Finish, Swap and Leave with a PIN that is neither the       *)
(* stored PIN nor the master PIN show the wrong-PIN error and leave the    *)
(* document unchanged.                                                     *)
C2_WrongPinSurfaced ==
    [][\A c \in Clients, pin \in AuthPins :
          /\ ( /\ (\E add \in AddMins : Extend(c, pin, add)) \/ Finish(c, pin)
               /\ pin # view[c].current_user[1].pin
               /\ pin # MASTER_PIN )
                => (store' = store /\ last'.res = "Wrong PIN")
          /\ \A i \in 1..MaxQueue :
                ( /\ Swap(c, i, pin) \/ Leave(c, i, pin)
                  /\ pin # view[c].queue[i].pin
                  /\ pin # MASTER_PIN )
                   => (store' = store /\ last'.res = "Wrong PIN")]_vars

(* C3: with the master PIN typed, Extend, Finish, Swap and Leave are       *)
(* accepted whatever PIN is stored, and the step is the very step the      *)
(* stored PIN would have produced: Add Time writes the extended occupant,  *)
(* Finish Early goes on to its write with the clock value it read, Swap    *)
(* Down and Leave write the edited list. (Every handler records the PIN    *)
(* typed and its client in the event of its step, so the steps concerned   *)
(* are those whose event carries the master PIN.)                          *)
C3_MasterPin ==
    [][last'.pin = MASTER_PIN => \A c \in {last'.c} :
          /\ \A add \in AddMins :
                Extend(c, MASTER_PIN, add) =>
                   /\ store'.current_user[1].end_time =
                         view[c].current_user[1].end_time + add * 60
                   /\ last'.res = "rerun"
                   /\ store' = [store EXCEPT !.current_user =
                         Some([view[c].current_user[1] EXCEPT
                                  !.end_time = @ + add * 60,
                                  !.timeout_alert_sent = FALSE])]
          /\ Finish(c, MASTER_PIN) =>
                /\ last'.res = "accepted"
                /\ pc' = [pc EXCEPT ![c] = "finishing"]
                /\ view' = [view EXCEPT ![c].last_free_time = Some(now)]
                /\ store' = store
          /\ \A i \in 1..MaxQueue :
                /\ Swap(c, i, MASTER_PIN) =>
                      /\ store'.queue[i] = view[c].queue[i + 1]
                      /\ store'.queue[i + 1] = view[c].queue[i]
                      /\ last'.res = "rerun"
                /\ Leave(c, i, MASTER_PIN) =>
                      /\ Len(store'.queue) = Len(view[c].queue) - 1
                      /\ \A k \in 1..Len(store'.queue) :
                            store'.queue[k] = view[c].queue[IF k < i THEN k ELSE k + 1]
                      /\ last'.res = "rerun"]_vars

(* C3 witness: an Add Time typed with the master PIN has been written for  *)
(* an occupant whose own PIN is another one                                *)
C3_Witness ==
    /\ last.op = "Extend" /\ last.pin = MASTER_PIN /\ last.res = "rerun"
    /\ store.current_user # Absent
    /\ Occupant.pin = "1234"
    /\ Occupant.end_time = Minutes(MinDuration) + Minutes(AddMinsMin)

(* C4: a Start (either form) never replaces an occupant whose end_time has *)
(* not passed by another session.                                          *)
C4_StartKeepsRunningOccupant ==
    [][last'.op \in {"StartFreeWrite", "StartQueueWrite"}
          => ~(/\ IsRunning(store.current_user, now)
               /\ store'.current_user # store.current_user)]_vars

(* C5: the queue written by a Leave, Swap or Skip holds no waiter that the *)
(* stored queue no longer holds: a waiter who left does not come back by   *)
(* another client's write computed from an older read.                     *)
C5_NoWaiterReappears ==
    [][last'.op \in {"Leave", "Swap", "SkipWrite"} =>
          \A k \in 1..Len(store'.queue) : Contains(store.queue, store'.queue[k])]_vars

(* C6: a waiter leaves the stored queue only by a Leave on that waiter, by *)
(* being the head that is skipped, or by starting as the head.             *)
C6_JoinNeverLost ==
    [][\A k \in 1..Len(store.queue) :
          LET w == store.queue[k]
          IN  ~Contains(store'.queue, w) =>
                 \E c \in Clients :
                    \/ /\ Ran(c, "Leave")
                       /\ \E i \in 1..Len(view[c].queue) :
                             view[c].queue[i] = w /\ Leave(c, i, last'.pin)
                    \/ /\ Ran(c, "SkipWrite") \/ Ran(c, "StartQueueWrite")
                       /\ view[c].queue # <<>> /\ view[c].queue[1] = w
                       /\ ~Contains(Tail(view[c].queue), w)
                       /\ \A j \in 1..Len(store.queue) :
                             store.queue[j] # w => Contains(store'.queue, store.queue[j])]_vars

(* C7: the time-is-up message goes out at most once per expiry: alerts     *)
(* counts the messages since the occupant was last stored or extended.     *)
C7_AlertOnce == alerts <= 1

(* C8: the auto-expiry write only marks the occupant that is stored when   *)
(* it is applied; it does not bring back, replace or roll back an occupant *)
(* changed since the run read the document.                                *)
C8_ExpiryWriteNoRollback ==
    [][last'.op = "Expiry" =>
          /\ store.current_user # Absent
          /\ store'.current_user =
                Some([store.current_user[1] EXCEPT !.timeout_alert_sent = TRUE])]_vars

(* C9: the write of the first run that sees the occupant's end_time passed *)
(* clears the stored occupant and sets last_free_time to that end_time.    *)
C9_ExpiryClearsOccupant ==
    [][\A c \in Clients : Ran(c, "Expiry") =>
          /\ store'.current_user = Absent
          /\ store'.last_free_time = Some(view[c].current_user[1].end_time)]_vars

(* C10: for a machine that is not running, with waiters and a free time F, *)
(* the status is ClaimWindowOpen exactly while now <= F + 15 minutes and   *)
(* ClaimExpired after.                                                     *)
C10_ClaimWindow ==
    LET eff == EffectiveFreeTime(store.current_user, store.last_free_time)
        st == Status(store.current_user, store.queue, store.last_free_time, now)
    IN  (~IsRunning(store.current_user, now) /\ store.queue # <<>> /\ eff # Absent)
           => /\ now <= eff[1] + 15 * 60 => st = "ClaimWindowOpen"
              /\ now > eff[1] + 15 * 60 => st = "ClaimExpired"

(* C11: a Skip taken on an up-to-date read happens only when the machine   *)
(* is not running, the head's 15-minute claim window has passed and at     *)
(* least 2 waiters queue; its write on an up-to-date read removes exactly  *)
(* the head, keeps the others in order, leaves the occupant field as it    *)
(* is, sets last_free_time to now, and the status derived right afterwards *)
(* is ClaimWindowOpen.                                                     *)
C11_Skip ==
    [][\A c \in Clients :
          /\ (Skip(c) /\ view[c] = Snapshot(store, now)) =>
                LET eff == EffectiveFreeTime(store.current_user, store.last_free_time)
                IN  /\ ~IsRunning(store.current_user, now)
                    /\ Len(store.queue) >= 2
                    /\ eff # Absent
                    /\ now > eff[1] + 15 * 60
          /\ ( /\ SkipWrite(c)
               /\ view[c].queue = store.queue
               /\ view[c].current_user = store.current_user ) =>
                /\ store'.queue = Tail(store.queue)
                /\ store'.current_user = store.current_user
                /\ store'.last_free_time = Some(now)
                /\ Status(store'.current_user, store'.queue,
                          store'.last_free_time, now) = "ClaimWindowOpen"]_vars

(* C12: every Skip (the button needs 2 or more waiters in the read queue)  *)
(* completes without error and sends one alert naming the former first     *)
(* waiter as timed out and the former second waiter as next: its write     *)
(* goes on to post that message, and the post delivers it.                 *)
C12_SkipNotifies ==
    [][\A c \in Clients :
          /\ SkipWrite(c) =>
                /\ last'.res = "written"
                /\ pc'[c] = "posting"
                /\ view'[c].msg = <<"QueueAlert", view[c].queue[1].name,
                                    Some(view[c].queue[2].name)>>
          /\ Post(c) =>
                /\ last'.res = "rerun"
                /\ last'.msg = view[c].msg]_vars

(* The same program with a clock that may advance between the two          *)
(* get_current_time() calls of a Start (lines 304-305, 318-319); the queue *)
(* edits and Add Time are left out, they do not touch the session times.   *)

(* The seconds the clock gains between the two clock reads of a Start: at  *)
(* most MaxDrift seconds in all since the last full step of the clock.     *)
DriftsLeft == {d \in 0..MaxDrift : (now % ClockStep) + d <= MaxDrift}

NextDrift ==
    \/ Tick
    \/ \E c \in Clients : Read(c)
    \/ \E c \in Clients : Derive(c)
    \/ \E c \in Clients : ExpiryAlert(c)
    \/ \E c \in Clients : ExpiryMark(c)
    \/ \E c \in Clients : Render(c)
    \/ \E c \in Clients : Post(c)
    \/ \E c \in Clients : Finish(c, MASTER_PIN)
    \/ \E c \in Clients : FinishWrite(c)
    \/ \E c \in Clients, form \in StartForms, dur \in Durations, drift \in DriftsLeft :
          StartQueue(c, form, dur, drift)
    \/ \E c \in Clients : StartQueueWrite(c)
    \/ \E c \in Clients, form \in StartForms, dur \in Durations, drift \in DriftsLeft :
          StartFree(c, form, dur, drift)
    \/ \E c \in Clients : StartFreeWrite(c)
    \/ \E c \in Clients, form \in JoinForms : Join(c, form)

SpecDrift == Init /\ [][NextDrift]_vars

(* C14: every successful Start stores a session whose end_time minus       *)
(* start_time is exactly the requested duration in minutes, also when the  *)
(* clock advances between the clock reads made while building the session. *)
C14_ExactDuration ==
    [][\A c \in Clients :
          /\ \A form \in StartForms, dur \in Durations, drift \in 0..MaxDrift :
                (/\ StartFree(c, form, dur, drift) \/ StartQueue(c, form, dur, drift)
                 /\ last'.res = "accepted")
                   => /\ view'[c].current_user[1].end_time
                            - view'[c].current_user[1].start_time = dur * 60
                      /\ view'[c].current_user[1].end_time
                            >= view'[c].current_user[1].start_time
          /\ (StartFreeWrite(c) \/ StartQueueWrite(c))
                => /\ store'.current_user = view[c].current_user
                   /\ \E dur \in Durations :
                         store'.current_user[1].end_time
                            - store'.current_user[1].start_time = dur * 60
                   /\ store'.current_user[1].end_time
                         >= store'.current_user[1].start_time]_vars

(* C15: every accepted Join appends exactly one waiter at the tail: the    *)
(* stored queue afterwards is the stored queue before with the joining     *)
(* waiter added as last element, also when an equal entry is queued.       *)
C15_JoinAppendsOne ==
    [][\A c \in Clients, form \in JoinForms :
          (Join(c, form) /\ last'.res = "written")
             => /\ Len(store'.queue) = Len(store.queue) + 1
                /\ store'.queue = Append(store.queue, Waiter(form, "PhD", ""))]_vars

-----------------------------------------------------------------------------
(* Queues of three waiters. The same handlers with a third person joining  *)
(* and room for one more waiter; the head's Start form is also filled in   *)
(* with another spelling of the name and no PIN, Finish Early is pressed   *)
(* with the master PIN, and the clock stands still, so no session expires  *)
(* and Add Time and Skip are left out.                                     *)

WideQueue == MaxQueue + 1

JoinFormsWide ==
    JoinForms \cup
    { [name |-> NameBob, pin |-> "9999", urgent |-> FALSE, urgent_reason |-> ""] }

(* What is typed into the Start form of the queue head: also the head's    *)
(* name in another spelling, with the PIN box left empty                   *)
StartFormsWide ==
    StartForms \cup { [name |-> NameBob, pin |-> ""] }

(* PINs typed into a waiter's PIN box: the master PIN and a waiter's own *)
QueuePins == {MASTER_PIN, "12"}

NextQueue ==
    \/ \E c \in Clients : Read(c)
    \/ \E c \in Clients : Derive(c)
    \/ \E c \in Clients : Render(c)
    \/ \E c \in Clients : Post(c)
    \/ \E c \in Clients : Finish(c, MASTER_PIN)
    \/ \E c \in Clients : FinishWrite(c)
    \/ \E c \in Clients, form \in StartFormsWide, dur \in Durations :
          StartQueue(c, form, dur, 0)
    \/ \E c \in Clients : StartQueueWrite(c)
    \/ \E c \in Clients, form \in StartForms, dur \in Durations :
          StartFree(c, form, dur, 0)
    \/ \E c \in Clients : StartFreeWrite(c)
    \/ \E c \in Clients, form \in JoinFormsWide : JoinCapped(c, form, WideQueue)
    \/ \E c \in Clients, i \in 1..WideQueue, pin \in QueuePins : Swap(c, i, pin)
    \/ \E c \in Clients, i \in 1..WideQueue, pin \in QueuePins : Leave(c, i, pin)

SpecQueue == Init /\ [][NextQueue]_vars

(* C16: an authorized Swap Down at index i of the queue the page read has  *)
(* i below the last index and writes that queue with exactly the waiters   *)
(* at i and i+1 exchanged, every other position as read; the occupant and  *)
(* last_free_time of the record stay as they are; swapping the result at   *)
(* the same index again gives the original queue; and no Swap Down step,   *)
(* authorized or not, exists at the last index.                            *)
C16_SwapExchangesTwo ==
    [][\A c \in Clients, i \in 1..WideQueue, pin \in QueuePins :
          Swap(c, i, pin) =>
             LET q == view[c].queue
             IN  /\ i < Len(q)
                 /\ PinOk(pin, q[i].pin) =>
                       /\ Len(store'.queue) = Len(q)
                       /\ store'.queue[i] = q[i + 1]
                       /\ store'.queue[i + 1] = q[i]
                       /\ \A j \in 1..Len(q) :
                             j \notin {i, i + 1} => store'.queue[j] = q[j]
                       /\ store'.current_user = store.current_user
                       /\ store'.last_free_time = store.last_free_time
                       /\ SwapDown(store'.queue, i) = q
                 /\ ~PinOk(pin, q[i].pin) => store' = store]_vars

(* a Swap Down at the second of three waiters has just been written *)
C16_Witness ==
    /\ last.op = "Swap" /\ last.res = "rerun"
    /\ Len(store.queue) = 3
    /\ store.queue[1].name = NameB
    /\ store.queue[2].name = NameBob
    /\ store.queue[3].name = NameC
    /\ store.current_user # Absent

(* C17: a Finish Early with the PIN of the occupant the page shows, or     *)
(* with the master PIN, is accepted, and its write clears the stored       *)
(* occupant, sets last_free_time to the current time and leaves the queue  *)
(* as stored. Right afterwards the machine is not running, the effective   *)
(* free time is the finish time, and the status is Available with an empty *)
(* queue and an open claim window for the head otherwise.                  *)
C17_FinishFrame ==
    [][\A c \in Clients :
          /\ \A pin \in AuthPins :
                (Finish(c, pin) /\ PinOk(pin, view[c].current_user[1].pin))
                   => (pc'[c] = "finishing" /\ last'.res = "accepted")
          /\ FinishWrite(c) =>
                /\ last'.res = "written"
                /\ store'.current_user = Absent
                /\ store'.last_free_time = Some(now)
                /\ store'.queue = store.queue
                /\ ~IsRunning(store'.current_user, now')
                /\ EffectiveFreeTime(store'.current_user, store'.last_free_time) = Some(now')
                /\ Status(store'.current_user, store'.queue, store'.last_free_time, now')
                      = IF store.queue = <<>> THEN "Available" ELSE "ClaimWindowOpen"]_vars

(* C1: a Start from the queue, evaluated on a snapshot whose machine is    *)
(* not running and whose queue is non-empty, is refused with the "Only ... *)
(* can start" error and no write when the typed name, trimmed and          *)
(* lower-cased, differs from the head's; otherwise the run goes on to one  *)
(* write, which stores the session built from the submitted fields and the *)
(* snapshot's queue without its head, order kept. Nothing is written       *)
(* before that write, and nothing by the post of the message after it.     *)
C1_StartFromQueue ==
    [][\A c \in Clients :
          /\ \A form \in StartFormsWide, dur \in Durations :
                StartQueue(c, form, dur, 0) =>
                   LET q == view[c].queue
                   IN  /\ ~view[c].is_running /\ q # <<>>
                       /\ store' = store
                       /\ IF lower(strip(form.name)) # lower(strip(q[1].name))
                          THEN /\ pc'[c] = "idle"
                               /\ last'.res = "Only head can start"
                          ELSE /\ pc'[c] = "claiming"
                               /\ view'[c].queue = q
                               /\ view'[c].current_user # Absent
                               /\ view'[c].current_user[1].name = form.name
                               /\ view'[c].current_user[1].pin = form.pin
                               /\ ~view'[c].current_user[1].timeout_alert_sent
          /\ StartQueueWrite(c) =>
                LET q == view[c].queue
                IN  /\ q # <<>>
                    /\ store'.current_user = view[c].current_user
                    /\ Len(store'.queue) = Len(q) - 1
                    /\ \A k \in 1..Len(store'.queue) : store'.queue[k] = q[k + 1]
                    /\ last'.res = "written"
          /\ Post(c) => store' = store]_vars

(* C1 witness: "b " was accepted and written as occupant while the waiter  *)
(* "b " still queues, so the head taken off was "B"; a waiter remains      *)
C1_Witness ==
    /\ last.op = "StartQueueWrite" /\ last.res = "written"
    /\ store.current_user # Absent
    /\ Occupant.name = NameBob
    /\ Occupant.pin = ""
    /\ Len(store.queue) = 1
    /\ store.queue[1].name = NameBob

(* The PINs of the model's input domain that are exactly 4 digits. *)
FourDigitPins == {"1234", "9999", "0000"}

InvalidStartInput(form, dur) ==
    \/ form.name = <<>>
    \/ form.pin \notin FourDigitPins
    \/ dur < 15 \/ dur > 120

InvalidJoinInput(form) ==
    \/ form.name = <<>>
    \/ form.pin \notin FourDigitPins
    \/ form.urgent /\ form.urgent_reason = ""

(* C13: a Start (Start Machine or start from the queue) or a Join whose    *)
(* input is invalid (empty name, missing PIN, PIN not exactly 4 digits,    *)
(* duration outside 15..120, urgent without a reason) is rejected with     *)
(* InvalidInput and does not change the stored record: the run ends at the *)
(* submission, and no Start write stores a session with such a PIN.        *)
C13_InvalidInputRejected ==
    [][\A c \in Clients :
          /\ \A form \in StartFormsWide, dur \in Durations :
                (/\ StartFree(c, form, dur, 0) \/ StartQueue(c, form, dur, 0)
                 /\ InvalidStartInput(form, dur))
                   => (store' = store /\ pc'[c] = "idle" /\ last'.res = "InvalidInput")
          /\ ( /\ StartFreeWrite(c) \/ StartQueueWrite(c)
               /\ view[c].current_user[1].pin \notin FourDigitPins )
                => store' = store
          /\ \A form \in JoinFormsWide :
                (JoinCapped(c, form, WideQueue) /\ InvalidJoinInput(form))
                   => (store' = store /\ last'.res = "InvalidInput")]_vars

(* position of waiter x in queue q *)
Pos(q, x) == CHOOSE k \in 1..Len(q) : q[k] = x

(* every two waiters of q that are both still in r stand in r in the same  *)
(* order as in q                                                           *)
OrderKept(q, r) ==
    \A a, b \in 1..Len(q) :
        (a < b /\ Contains(r, q[a]) /\ Contains(r, q[b]))
           => Pos(r, q[a]) < Pos(r, q[b])

(* C18: a step that is not a Swap Down never changes the relative order of *)
(* two waiters that stay in the stored queue, and an authorized Leave at   *)
(* index i removes exactly the waiter at index i of the stored queue.      *)
C18_QueueOrder ==
    [][/\ last'.op # "Swap" => OrderKept(store.queue, store'.queue)
       /\ \A c \in Clients, i \in 1..WideQueue, pin \in QueuePins :
             (Leave(c, i, pin) /\ last'.res = "rerun")
                => (i <= Len(store.queue) /\ store'.queue = Pop(store.queue, i))]_vars

(* C19: whenever the machine is not running and somebody waits, the record *)
(* holds a claim-window anchor (a last_free_time, or an occupant whose     *)
(* end_time has passed), so the head's status is ClaimWindowOpen or        *)
(* ClaimExpired and never Available.                                       *)
C19_AnchorExists ==
    (~IsRunning(store.current_user, now) /\ store.queue # <<>>) =>
       /\ \/ store.last_free_time # Absent
          \/ store.current_user # Absent /\ now >= store.current_user[1].end_time
       /\ EffectiveFreeTime(store.current_user, store.last_free_time) # Absent
       /\ Status(store.current_user, store.queue, store.last_free_time, now)
             \in {"ClaimWindowOpen", "ClaimExpired"}

(* somebody waits while the only anchor is the end_time of an occupant     *)
(* whose session has run out                                               *)
C19_Witness ==
    /\ store.queue # <<>>
    /\ store.current_user # Absent
    /\ now >= store.current_user[1].end_time
    /\ store.last_free_time = Absent

(* C20: whenever the stored occupant's session is still running, the       *)
(* record holds no last_free_time; and once that session has run out, the  *)
(* effective free time is never earlier than the session's end_time.       *)
C20_NoStaleFreeTime ==
    /\ IsRunning(store.current_user, now) => store.last_free_time = Absent
    /\ (store.current_user # Absent /\ now >= store.current_user[1].end_time)
          => EffectiveFreeTime(store.current_user, store.last_free_time)[1]
                >= store.current_user[1].end_time

====
